---- MODULE Spec2Model ----
(***************************************************************************)
(* Inventory backend (src/backend/main.py): product ledger, movement       *)
(* journal, moving weighted-average valuation, consumption estimator,      *)
(* replenishment advisor, ABC curve, and the transactions around them.     *)
(*                                                                         *)
(* Number representation.  Quantities (estoque_atual, quantidade) are      *)
(* whole units, which NUMERIC(14,4) stores exactly.  Prices and rates      *)
(* (preco_medio, preco_unit, consumo_medio_dia) are fixed point with       *)
(* Escala = 10^4 (NUMERIC(14,4)); fator_seguranca is in hundredths         *)
(* (NUMERIC(6,2)).  A value written to a NUMERIC column is rounded to the  *)
(* column's scale, half away from zero.  Time is counted in days.          *)
(* An Optional value is a set with at most one element ({} is None).       *)
(***************************************************************************)
EXTENDS Integers, Sequences, FiniteSets, TLC

VARIABLES
    produtos,     \* table produtos: id -> row (committed)
    prodSeq,      \* SERIAL counter of produtos.id (never rolled back)
    movimentos,   \* table movimentos: committed rows, in commit order
    now,          \* datetime.now() / NOW(), in days
    resp,         \* response of the last request handled
    tx,           \* the open transactions of concurrent POST /movimentos
    base          \* the ledger as it was before the concurrent requests

vars == <<produtos, prodSeq, movimentos, now, resp, tx, base>>

---------------------------------------------------------------------------
(* Program constants *)

Escala == 10000
DiasConsumo == 30
DiasAbc == 90
LeadPadrao == 7
FsPadrao == 120
LimiteA == 80
LimiteB == 95

TiposValidos == {"ENTRADA", "SAIDA", "AJUSTE"}

(* Bounds of the model *)

MaxMovs == 2
MaxProdutos == 1
MaxSaidasAbc == 2
MaxLinhas == 2

---------------------------------------------------------------------------
(* Helpers *)

Max(a, b) == IF a >= b THEN a ELSE b

Abs(a) == IF a >= 0 THEN a ELSE -a

\* str.upper() on the kinds the requests carry
Upper(t) ==
    CASE t = "entrada" -> "ENTRADA"
      [] t = "Saida"   -> "SAIDA"
      [] t = "ajuste"  -> "AJUSTE"
      [] t = "devolucao" -> "DEVOLUCAO"
      [] OTHER -> t

\* Optional value or a default: `x or d` for x in {None, v}
OrElse(o, d) == IF o = {} THEN d ELSE CHOOSE v \in o : TRUE

\* `x or d` on a number: None and 0 are both falsy
OrNum(o, d) == IF o = {} \/ o = {0} THEN d ELSE CHOOSE v \in o : TRUE

\* a / b (b > 0) rounded to an integer, half away from zero: the rounding
\* of a value assigned to a NUMERIC(p,s) column
ArredDiv(a, b) ==
    IF a >= 0 THEN (2 * a + b) \div (2 * b)
    ELSE -((2 * (-a) + b) \div (2 * b))

\* a / b (b > 0) rounded to an integer, half to even: Python's round()
ArredPar(a, b) ==
    LET n == Abs(a)
        q == n \div b
        r == n % b
        m == IF 2 * r > b THEN q + 1
             ELSE IF 2 * r < b THEN q
             ELSE IF q % 2 = 0 THEN q ELSE q + 1
    IN IF a >= 0 THEN m ELSE -m

---------------------------------------------------------------------------
(* Rows *)

\* INSERT INTO produtos(...): preco_medio, estoque_atual and
\* consumo_medio_dia take the column defaults (0)
NovoProduto(p) ==
    [codigo |-> p.codigo, descricao |-> p.descricao,
     lead_time_dias |-> p.lead_time_dias,
     fator_seguranca |-> p.fator_seguranca,
     preco_medio |-> 0, estoque_atual |-> 0, consumo_medio_dia |-> 0]

\* the row POST /movimentos inserts: tipo upper-cased, `preco_unit or 0`,
\* `data_mov or datetime.now()`
RegistroMovimento(m, agora) ==
    [produto_id |-> m.produto_id, tipo |-> Upper(m.tipo),
     quantidade |-> m.quantidade, preco_unit |-> OrNum(m.preco_unit, 0),
     origem |-> "MANUAL", data_mov |-> OrElse(m.data_mov, agora)]

\* codigo is UNIQUE: the ids of the rows holding code c
IdsComCodigo(P, c) == {i \in DOMAIN P : P[i].codigo = c /\ c # {}}

---------------------------------------------------------------------------
(* Valuation engine: atualizar_preco_medio_e_estoque *)

NovoEstoque(tipo, estoque, quantidade) ==
    IF Upper(tipo) = "ENTRADA" THEN estoque + quantidade
    ELSE IF Upper(tipo) = "SAIDA" THEN Max(0, estoque - quantidade)
    ELSE Max(0, estoque + quantidade)

\* a valuation that reweights the cost on every kind of movement
NovoPrecoReavalia(tipo, estoque, preco, quantidade, preco_unit) ==
    IF NovoEstoque(tipo, estoque, quantidade) > 0
    THEN ArredDiv(estoque * preco + Abs(quantidade) * preco_unit,
                  estoque + Abs(quantidade))
    ELSE preco

\* the mean of the old cost and the unit price, without the weights
NovoPrecoSemPeso(tipo, estoque, preco, quantidade, preco_unit) ==
    IF Upper(tipo) = "ENTRADA"
    THEN IF estoque + quantidade > 0
         THEN ArredDiv(preco + preco_unit, 2)
         ELSE preco
    ELSE preco

NovoPreco(tipo, estoque, preco, quantidade, preco_unit) ==
    IF Upper(tipo) = "ENTRADA"
    THEN IF estoque + quantidade > 0
         THEN ArredDiv(estoque * preco + quantidade * preco_unit,
                       estoque + quantidade)
         ELSE preco
    ELSE preco

\* SELECT the row, compute, UPDATE it (P is the table as the connection
\* sees it; the caller has established that the row exists)
AtualizarPrecoMedioEEstoque(P, id, tipo, quantidade, preco_unit) ==
    LET e == P[id].estoque_atual
        c == P[id].preco_medio
    IN [P EXCEPT ![id].estoque_atual = NovoEstoque(tipo, e, quantidade),
                 ![id].preco_medio = NovoPreco(tipo, e, c, quantidade, preco_unit)]

---------------------------------------------------------------------------
(* Consumption estimator: calcular_consumo_medio *)

\* the SUM without the condition on data_mov
RECURSIVE SomaSaidasSemJanela(_, _, _)
SomaSaidasSemJanela(M, id, since) ==
    IF M = <<>> THEN 0
    ELSE LET h == Head(M)
         IN (IF h.produto_id = id /\ h.tipo = "SAIDA"
             THEN h.quantidade ELSE 0) + SomaSaidasSemJanela(Tail(M), id, since)

\* the SUM without the condition on tipo
RECURSIVE SomaTodosOsTipos(_, _, _)
SomaTodosOsTipos(M, id, since) ==
    IF M = <<>> THEN 0
    ELSE LET h == Head(M)
         IN (IF h.produto_id = id /\ h.data_mov >= since
             THEN h.quantidade ELSE 0) + SomaTodosOsTipos(Tail(M), id, since)

\* SELECT COALESCE(SUM(quantidade),0) FROM movimentos
\* WHERE produto_id=:id AND tipo='SAIDA' AND data_mov>=:since
RECURSIVE SomaSaidas(_, _, _)
SomaSaidas(M, id, since) ==
    IF M = <<>> THEN 0
    ELSE LET h == Head(M)
         IN (IF h.produto_id = id /\ h.tipo = "SAIDA" /\ h.data_mov >= since
             THEN h.quantidade ELSE 0) + SomaSaidas(Tail(M), id, since)

ConsumoMedio(M, id, agora, dias) ==
    IF dias > 0
    THEN ArredDiv(SomaSaidas(M, id, agora - dias) * Escala, dias)
    ELSE 0

CalcularConsumoMedio(P, M, id, agora) ==
    [P EXCEPT ![id].consumo_medio_dia = ConsumoMedio(M, id, agora, DiasConsumo)]

---------------------------------------------------------------------------
(* Replenishment advisor: calcular_min_max_sugestao *)

CalcularMinMaxSugestao(P, id) ==
    LET row == P[id]
        consumo == row.consumo_medio_dia
        lead == IF row.lead_time_dias = 0 THEN LeadPadrao ELSE row.lead_time_dias
        fs == IF row.fator_seguranca = 0 THEN FsPadrao ELSE row.fator_seguranca
        estoque_min == consumo * lead             \* 1/10^4
        estoque_max == estoque_min * fs           \* 1/10^6
        sugerido == Max(0, estoque_max - row.estoque_atual * Escala * 100)
    IN [op |-> "sugestao", status |-> 200, produto_id |-> id,
        estoque_min |-> ArredPar(estoque_min, Escala \div 100),
        estoque_max |-> ArredPar(estoque_max, Escala),
        sugestao_compra |-> ArredPar(sugerido, Escala)]

---------------------------------------------------------------------------
(* Requests the model sends *)

TxIds == {"t1", "t2"}

TiposIn == {"ENTRADA", "SAIDA", "AJUSTE", "Saida", "DEVOLUCAO"}
QuantidadesIn == {-5, 5, 10}
PrecosIn == {{}, {20000}, {40000}}
AtrasosIn == {40}

\* ProdutoIn bodies of POST /produtos
ProdutosIn ==
    {[codigo |-> {}, descricao |-> "d", lead_time_dias |-> l.lead,
      fator_seguranca |-> l.fs] :
        l \in {[lead |-> 7, fs |-> 120], [lead |-> 0, fs |-> 0]}}

\* MovimentoIn bodies of POST /movimentos at time `agora`
MovimentosIn(ids, agora) ==
    [produto_id : ids, tipo : TiposIn, quantidade : QuantidadesIn,
     preco_unit : PrecosIn,
     data_mov : {{}} \cup {{agora - a} : a \in AtrasosIn}]

Ok == [op |-> "ok", status |-> 200]
Erro(op, status) == [op |-> op, status |-> status]

\* a request that has not arrived: no movement, nothing inserted, read or
\* written
TxOcioso == [pc |-> "idle", m |-> {}, ins |-> {}, lido |-> {}, escrito |-> {}]

---------------------------------------------------------------------------
(* Handlers, each one request in one transaction *)

\* INSERT INTO produtos ... RETURNING *.  The SERIAL value is consumed even
\* when the UNIQUE constraint on codigo rejects the row.
InserirProduto(p) ==
    /\ prodSeq' = prodSeq + 1
    /\ IF IdsComCodigo(produtos, p.codigo) # {}
       THEN /\ resp' = Erro("criar_produto", 500)
            /\ UNCHANGED produtos
       ELSE /\ produtos' = produtos @@ (prodSeq + 1 :> NovoProduto(p))
            /\ resp' = Ok
    /\ UNCHANGED <<movimentos, now, tx, base>>

\* POST /produtos
CriarProduto(p) == prodSeq < MaxProdutos /\ InserirProduto(p)

\* the movement revalued twice
AposMovimentoDuplo(P, M, m, agora) ==
    LET M1 == Append(M, RegistroMovimento(m, agora))
        P1 == AtualizarPrecoMedioEEstoque(P, m.produto_id, m.tipo,
                  m.quantidade, OrNum(m.preco_unit, 0))
        P2 == AtualizarPrecoMedioEEstoque(P1, m.produto_id, m.tipo,
                  m.quantidade, OrNum(m.preco_unit, 0))
    IN [P |-> CalcularConsumoMedio(P2, M1, m.produto_id, agora), M |-> M1]

\* The three statements of POST /movimentos on the tables <<P, M>> as the
\* connection sees them: INSERT the movement, revalue, refresh the rate
AposMovimento(P, M, m, agora) ==
    LET M1 == Append(M, RegistroMovimento(m, agora))
        P1 == AtualizarPrecoMedioEEstoque(P, m.produto_id, m.tipo,
                  m.quantidade, OrNum(m.preco_unit, 0))
    IN [P |-> CalcularConsumoMedio(P1, M1, m.produto_id, agora), M |-> M1]

\* POST /movimentos.  An unknown kind is rejected before the transaction
\* opens; a produto_id that no row has violates the foreign key of the
\* INSERT and the transaction rolls back.
LancarMovimento(m) ==
    /\ IF Upper(m.tipo) \notin TiposValidos
       THEN /\ resp' = Erro("lancar_movimento", 400)
            /\ UNCHANGED <<produtos, movimentos>>
       ELSE IF m.produto_id \notin DOMAIN produtos
       THEN /\ resp' = Erro("lancar_movimento", 500)
            /\ UNCHANGED <<produtos, movimentos>>
       ELSE LET r == AposMovimento(produtos, movimentos, m, now)
            IN /\ movimentos' = r.M
               /\ produtos' = r.P
               /\ resp' = Ok
    /\ UNCHANGED <<prodSeq, now, tx, base>>

\* a suggestion that refreshes the consumption rate before it answers
SugestaoComRefresh(id) ==
    /\ IF id \in DOMAIN produtos
       THEN LET P1 == CalcularConsumoMedio(produtos, movimentos, id, now)
            IN /\ produtos' = P1
               /\ resp' = CalcularMinMaxSugestao(P1, id)
       ELSE /\ resp' = Erro("sugestao", 404)
            /\ UNCHANGED produtos
    /\ UNCHANGED <<prodSeq, movimentos, now, tx, base>>

\* GET /sugestoes-compra/{produto_id}
Sugestao(id) ==
    /\ resp' = IF id \in DOMAIN produtos
               THEN CalcularMinMaxSugestao(produtos, id)
               ELSE Erro("sugestao", 404)
    /\ UNCHANGED <<produtos, prodSeq, movimentos, now, tx, base>>

---------------------------------------------------------------------------
(* The ledger under sequential requests *)

Init ==
    /\ produtos = <<>>
    /\ prodSeq = 0
    /\ movimentos = <<>>
    /\ now = 0
    /\ resp = Ok
    /\ tx = [t \in TxIds |-> TxOcioso]
    /\ base = <<>>

Next ==
    \/ \E p \in ProdutosIn : CriarProduto(p)
    \/ \E m \in MovimentosIn(1 .. MaxProdutos + 1, now) :
          Len(movimentos) < MaxMovs /\ LancarMovimento(m)
    \/ \E id \in 1 .. MaxProdutos + 1 : Sugestao(id)

Spec == Init /\ [][Next]_vars

---------------------------------------------------------------------------
(* The valuation of one registered product *)

ProdutoPadrao ==
    [codigo |-> {}, descricao |-> "d", lead_time_dias |-> LeadPadrao,
     fator_seguranca |-> FsPadrao]

\* the store after one POST /produtos
InitValor ==
    /\ produtos = (1 :> NovoProduto(ProdutoPadrao))
    /\ prodSeq = 1
    /\ movimentos = <<>>
    /\ now = 0
    /\ resp = Ok
    /\ tx = [t \in TxIds |-> TxOcioso]
    /\ base = <<>>

NextValor ==
    \/ \E m \in MovimentosIn({1, 2}, now) :
          Len(movimentos) < MaxMovs /\ LancarMovimento(m)
    \/ \E id \in {1, 2} : Sugestao(id)

SpecValor == InitValor /\ [][NextValor]_vars

---------------------------------------------------------------------------
(* Properties of the ledger *)

\* the journal rows of product id, in journal order
MovimentosDe(M, id) == SelectSeq(M, LAMBDA r : r.produto_id = id)

RECURSIVE SomaQuantidade(_)
SomaQuantidade(M) ==
    IF M = <<>> THEN 0 ELSE Head(M).quantidade + SomaQuantidade(Tail(M))

RECURSIVE SomaValor(_)
SomaValor(M) ==
    IF M = <<>> THEN 0
    ELSE Head(M).quantidade * Head(M).preco_unit + SomaValor(Tail(M))

SoEntradas(M) == \A i \in 1 .. Len(M) : M[i].tipo = "ENTRADA"

\* C1: every product's stock is >= 0 after any sequence of accepted
\* movements.
C1_EstoqueNaoNegativo ==
    \A id \in DOMAIN produtos : produtos[id].estoque_atual >= 0

\* C2: a product that has received only ENTRADA movements (at least one)
\* has stock = sum(qty_i) and avg_cost = sum(qty_i*price_i)/sum(qty_i); the
\* equality of the cost is taken up to the half unit of the fourth decimal
\* that each of the n stored results may have been rounded by.
C2_MediaPonderada ==
    \A id \in DOMAIN produtos :
        LET E == MovimentosDe(movimentos, id)
            sq == SomaQuantidade(E)
            sv == SomaValor(E)
        IN (E # <<>> /\ SoEntradas(E)) =>
              /\ produtos[id].estoque_atual = sq
              /\ sq # 0 =>
                    2 * Abs(produtos[id].preco_medio * sq - sv) <= Len(E) * Abs(sq)

\* C3: a step that records SAIDA or AJUSTE movements (and no ENTRADA) for
\* a product leaves that product's avg_cost as it was, whatever the
\* quantity and the unit price of the movement.
C3_SaidaAjusteMantemPreco ==
    [][\A id \in DOMAIN produtos :
          LET novos == MovimentosDe(SubSeq(movimentos', Len(movimentos) + 1,
                                           Len(movimentos')), id)
          IN (/\ Len(movimentos') > Len(movimentos)
              /\ novos # <<>>
              /\ \A i \in 1 .. Len(novos) : novos[i].tipo \in {"SAIDA", "AJUSTE"})
             => produtos'[id].preco_medio = produtos[id].preco_medio]_vars

\* C3 witness: a SAIDA that carried a unit price and exceeded the stock
\* has been applied to a product with a positive avg_cost.
C3_Witness ==
    /\ Len(movimentos) = 2
    /\ LET u == movimentos[2]
       IN /\ u.tipo = "SAIDA"
          /\ movimentos[1].tipo = "ENTRADA"
          /\ movimentos[1].produto_id = u.produto_id
          /\ movimentos[1].quantidade > 0
          /\ movimentos[1].quantidade < u.quantidade
          /\ u.preco_unit > 0
          /\ u.produto_id \in DOMAIN produtos
          /\ produtos[u.produto_id].estoque_atual = 0
          /\ produtos[u.produto_id].preco_medio > 0
          /\ produtos[u.produto_id].preco_medio # u.preco_unit

\* replay of a product's movements from (0, 0) with the valuation rules
RECURSIVE Replay(_, _, _)
Replay(M, estoque, preco) ==
    IF M = <<>> THEN [estoque |-> estoque, preco |-> preco]
    ELSE LET h == Head(M)
         IN Replay(Tail(M),
                   NovoEstoque(h.tipo, estoque, h.quantidade),
                   NovoPreco(h.tipo, estoque, preco, h.quantidade, h.preco_unit))

\* stable insertion of a row by data_mov
RECURSIVE InserirPorData(_, _)
InserirPorData(r, S) ==
    IF S = <<>> THEN <<r>>
    ELSE IF Head(S).data_mov <= r.data_mov
         THEN <<Head(S)>> \o InserirPorData(r, Tail(S))
         ELSE <<r>> \o S

RECURSIVE OrdenarPorData(_)
OrdenarPorData(M) ==
    IF M = <<>> THEN <<>>
    ELSE InserirPorData(M[Len(M)], OrdenarPorData(SubSeq(M, 1, Len(M) - 1)))

\* C7: each product's cached (stock, avg_cost) equals the replay of its
\* journal movements from (0, 0) in timestamp (data_mov) order.
C7_ProjecaoPorData ==
    \A id \in DOMAIN produtos :
        LET r == Replay(OrdenarPorData(MovimentosDe(movimentos, id)), 0, 0)
        IN /\ produtos[id].estoque_atual = r.estoque
           /\ produtos[id].preco_medio = r.preco

\* C8: the suggestion uses the stored values as they are:
\* estoque_min = rate * lead, estoque_max = estoque_min * factor,
\* sugestao_compra = max(0, estoque_max - stock), a stored 0 staying 0.
C8_SugestaoValoresArmazenados ==
    (resp.op = "sugestao" /\ resp.status = 200) =>
        LET row == produtos[resp.produto_id]
            emin == row.consumo_medio_dia * row.lead_time_dias
            emax == emin * row.fator_seguranca
        IN /\ resp.estoque_min = ArredPar(emin, Escala \div 100)
           /\ resp.estoque_max = ArredPar(emax, Escala)
           /\ resp.sugestao_compra =
                 ArredPar(Max(0, emax - row.estoque_atual * Escala * 100), Escala)

---------------------------------------------------------------------------
(* Concurrent POST /movimentos.  Each request runs lancar_movimento in its  *)
(* own transaction (engine.begin(), the engine's default isolation, READ    *)
(* COMMITTED): a statement reads what is committed plus the transaction's   *)
(* own writes; an UPDATE of a row waits while another open transaction      *)
(* holds an uncommitted UPDATE of it; COMMIT publishes the writes at once;  *)
(* an exception rolls them back.                                            *)

MovimentosConc ==
    [produto_id : {1, 2, 3}, tipo : {"ENTRADA", "SAIDA", "AJUSTE"},
     quantidade : {5, 10}, preco_unit : {{20000}, {40000}}, data_mov : {{}}]

MovDe(t) == CHOOSE m \in tx[t].m : TRUE

\* another open transaction holds an uncommitted UPDATE of row id
LinhaTravada(t, id) ==
    \E u \in TxIds \ {t} :
        /\ tx[u].escrito # {}
        /\ MovDe(u).produto_id = id

\* the exception leaves the `with engine.begin()` block: ROLLBACK, but the
\* INSERT into movimentos stays
RollbackParcial(t) ==
    /\ tx' = [tx EXCEPT ![t] = [@ EXCEPT !.pc = "failed", !.ins = {},
                                         !.lido = {}, !.escrito = {}]]
    /\ movimentos' = movimentos \o
           (IF tx[t].ins = {} THEN <<>> ELSE <<CHOOSE r \in tx[t].ins : TRUE>>)
    /\ UNCHANGED produtos

\* the exception leaves the `with engine.begin()` block: ROLLBACK
Rollback(t) ==
    /\ tx' = [tx EXCEPT ![t] = [@ EXCEPT !.pc = "failed", !.ins = {},
                                         !.lido = {}, !.escrito = {}]]
    /\ UNCHANGED <<produtos, movimentos>>

\* the request arrives; an unknown kind is rejected before engine.begin()
TxBegin(t, m) ==
    /\ tx[t].pc = "idle"
    /\ tx' = [tx EXCEPT ![t] = [@ EXCEPT !.m = {m},
                 !.pc = IF Upper(m.tipo) \in TiposValidos
                        THEN "insert" ELSE "failed"]]
    /\ UNCHANGED <<produtos, prodSeq, movimentos, now, resp, base>>

\* INSERT INTO movimentos: the foreign key needs a committed produtos row
TxInsert(t) ==
    /\ tx[t].pc = "insert"
    /\ IF MovDe(t).produto_id \in DOMAIN produtos
       THEN /\ tx' = [tx EXCEPT ![t] = [@ EXCEPT !.pc = "select",
                          !.ins = {RegistroMovimento(MovDe(t), now)}]]
            /\ UNCHANGED <<produtos, movimentos>>
       ELSE Rollback(t)
    /\ UNCHANGED <<prodSeq, now, resp, base>>

\* SELECT estoque_atual, preco_medio FROM produtos WHERE id=:id
TxSelect(t) ==
    /\ tx[t].pc = "select"
    /\ LET row == produtos[MovDe(t).produto_id]
       IN tx' = [tx EXCEPT ![t] = [@ EXCEPT !.pc = "update",
                     !.lido = {[estoque_atual |-> row.estoque_atual,
                                preco_medio |-> row.preco_medio]}]]
    /\ UNCHANGED <<produtos, prodSeq, movimentos, now, resp, base>>

\* UPDATE produtos SET estoque_atual=:e, preco_medio=:p WHERE id=:id, with
\* the values computed from the row read by the SELECT
TxUpdate(t) ==
    /\ tx[t].pc = "update"
    /\ LET m == MovDe(t)
           l == CHOOSE r \in tx[t].lido : TRUE
       IN /\ ~LinhaTravada(t, m.produto_id)
          /\ tx' = [tx EXCEPT ![t] = [@ EXCEPT !.pc = "consumo",
                 !.escrito = {[produtos[m.produto_id] EXCEPT
                     !.estoque_atual =
                         NovoEstoque(m.tipo, l.estoque_atual, m.quantidade),
                     !.preco_medio =
                         NovoPreco(m.tipo, l.estoque_atual, l.preco_medio,
                                   m.quantidade, OrNum(m.preco_unit, 0))]}]]
    /\ UNCHANGED <<produtos, prodSeq, movimentos, now, resp, base>>

\* calcular_consumo_medio: the SUM sees the committed movements and the
\* transaction's own INSERT
TxConsumo(t) ==
    /\ tx[t].pc = "consumo"
    /\ LET m == MovDe(t)
           visto == movimentos \o <<CHOOSE r \in tx[t].ins : TRUE>>
           w == CHOOSE r \in tx[t].escrito : TRUE
       IN tx' = [tx EXCEPT ![t] = [@ EXCEPT !.pc = "commit",
                 !.escrito = {[w EXCEPT !.consumo_medio_dia =
                     ConsumoMedio(visto, m.produto_id, now, DiasConsumo)]}]]
    /\ UNCHANGED <<produtos, prodSeq, movimentos, now, resp, base>>

\* COMMIT of a transaction whose UPDATE of consumo_medio_dia had no WHERE
TxCommitSemWhere(t) ==
    /\ tx[t].pc = "commit"
    /\ movimentos' = Append(movimentos, CHOOSE r \in tx[t].ins : TRUE)
    /\ LET w == CHOOSE r \in tx[t].escrito : TRUE
       IN produtos' = [j \in DOMAIN produtos |->
              IF j = MovDe(t).produto_id THEN w
              ELSE [produtos[j] EXCEPT !.consumo_medio_dia = w.consumo_medio_dia]]
    /\ tx' = [tx EXCEPT ![t] = [@ EXCEPT !.pc = "done", !.ins = {},
                                         !.escrito = {}]]
    /\ resp' = Ok
    /\ UNCHANGED <<prodSeq, now, base>>

\* leaving the `with` block: COMMIT
TxCommit(t) ==
    /\ tx[t].pc = "commit"
    /\ movimentos' = Append(movimentos, CHOOSE r \in tx[t].ins : TRUE)
    /\ produtos' = [produtos EXCEPT ![MovDe(t).produto_id] =
                        CHOOSE r \in tx[t].escrito : TRUE]
    /\ tx' = [tx EXCEPT ![t] = [@ EXCEPT !.pc = "done", !.ins = {},
                                         !.escrito = {}]]
    /\ resp' = Ok
    /\ UNCHANGED <<prodSeq, now, base>>

\* the store fails under an open transaction (StoreFailure)
TxFalha(t) ==
    /\ tx[t].pc \in {"select", "update", "consumo", "commit"}
    /\ Rollback(t)
    /\ resp' = Erro("lancar_movimento", 500)
    /\ UNCHANGED <<prodSeq, now, base>>

\* the store after two POST /produtos
InitConc ==
    /\ produtos = (1 :> NovoProduto(ProdutoPadrao)) @@
                  (2 :> NovoProduto(ProdutoPadrao))
    /\ prodSeq = 2
    /\ movimentos = <<>>
    /\ now = 0
    /\ resp = Ok
    /\ tx = [t \in TxIds |-> TxOcioso]
    /\ base = produtos

NextConc ==
    \/ \E t \in TxIds, m \in MovimentosConc : TxBegin(t, m)
    \/ \E t \in TxIds : TxInsert(t)
    \/ \E t \in TxIds : TxSelect(t)
    \/ \E t \in TxIds : TxUpdate(t)
    \/ \E t \in TxIds : TxConsumo(t)
    \/ \E t \in TxIds : TxCommit(t)
    \/ \E t \in TxIds : TxFalha(t)

SpecConc == InitConc /\ [][NextConc]_vars

---------------------------------------------------------------------------
(* Properties of concurrent requests *)

\* (stock, avg_cost) of row id after applying ma and then mb to table P
EmSerie(P, id, ma, mb) ==
    LET P1 == AtualizarPrecoMedioEEstoque(P, id, ma.tipo, ma.quantidade,
                  OrNum(ma.preco_unit, 0))
        P2 == AtualizarPrecoMedioEEstoque(P1, id, mb.tipo, mb.quantidade,
                  OrNum(mb.preco_unit, 0))
    IN <<P2[id].estoque_atual, P2[id].preco_medio>>

\* C4: two overlapping POST /movimentos on one product are serialized:
\* once both have committed, the product's (stock, avg_cost) is the result
\* of applying the two movements one after the other in some order.
C4_Serializado ==
    \A t, u \in TxIds :
        (/\ t # u
         /\ tx[t].pc = "done" /\ tx[u].pc = "done"
         /\ MovDe(t).produto_id = MovDe(u).produto_id)
        => LET id == MovDe(t).produto_id
           IN <<produtos[id].estoque_atual, produtos[id].preco_medio>> \in
                 {EmSerie(base, id, MovDe(t), MovDe(u)),
                  EmSerie(base, id, MovDe(u), MovDe(t))}

\* C5: posting one movement is atomic.  The committed journal and product
\* rows change only in the step that commits a request, and then the
\* journal row, the revalued stock and avg_cost and the refreshed
\* consumption rate of that request appear together; a step in which a
\* request fails (unknown product, or a failure at any later statement)
\* changes neither the journal nor any product row.
C5_MovimentoAtomico ==
    [][/\ (movimentos' # movimentos \/ produtos' # produtos) =>
            \E t \in TxIds :
               /\ tx[t].pc = "commit" /\ tx'[t].pc = "done"
               /\ LET m == MovDe(t)
                      id == m.produto_id
                      l == CHOOSE r \in tx[t].lido : TRUE
                  IN /\ movimentos' = Append(movimentos, RegistroMovimento(m, now))
                     /\ produtos'[id].estoque_atual =
                           NovoEstoque(m.tipo, l.estoque_atual, m.quantidade)
                     /\ produtos'[id].preco_medio =
                           NovoPreco(m.tipo, l.estoque_atual, l.preco_medio,
                                     m.quantidade, OrNum(m.preco_unit, 0))
                     /\ produtos'[id].consumo_medio_dia =
                           ConsumoMedio(movimentos', id, now, DiasConsumo)
                     /\ \A j \in DOMAIN produtos \ {id} : produtos'[j] = produtos[j]
       /\ \A t \in TxIds :
            (tx[t].pc # "failed" /\ tx'[t].pc = "failed") =>
                (movimentos' = movimentos /\ produtos' = produtos)]_vars

\* C5 witness: one request has failed on a product that does not exist,
\* another has failed at a statement after its INSERT, and the journal
\* and the products are as they were.
C5_Witness ==
    \E t, u \in TxIds :
        /\ tx[t].pc = "failed" /\ MovDe(t).produto_id \notin DOMAIN produtos
        /\ tx[u].pc = "failed" /\ MovDe(u).produto_id \in DOMAIN produtos
        /\ movimentos = <<>>
        /\ produtos = base

---------------------------------------------------------------------------
(* Bulk imports.  The whole loop over the rows runs inside one            *)
(* `with engine.begin()` block: one transaction per document.             *)

\* the rows of a document, already extracted.  valido = FALSE: the text of
\* the quantity is not a number and float() raises ValueError (in the
\* spreadsheet loop before the kind of the row is looked at)
LinhasXml ==
    [cProd : {{}, {"A"}}, qCom : {{}, {5}}, vUnCom : {{20000}},
     valido : {TRUE}]
    \cup {[cProd |-> {"A"}, qCom |-> {}, vUnCom |-> {}, valido |-> FALSE]}

LinhasExcel ==
    [codigo : {{}, {"A"}}, tipo : {"ENTRADA", "Saida", "DEVOLUCAO"},
     quantidade : {{5}}, preco_unit : {{20000}}, valido : {TRUE}]
    \cup {[codigo |-> {"A"}, tipo |-> t, quantidade |-> {},
           preco_unit |-> {}, valido |-> FALSE] : t \in {"ENTRADA", "DEVOLUCAO"}}

Docs(linhas) == UNION {[1 .. n -> linhas] : n \in 1 .. MaxLinhas}

\* INSERT INTO produtos(codigo, ean, descricao, ncm, unidade): lead time and
\* safety factor take the column defaults
ProdutoImportado(codigo, descricao) ==
    NovoProduto([codigo |-> codigo, descricao |-> descricao,
                 lead_time_dias |-> LeadPadrao, fator_seguranca |-> FsPadrao])

\* a product INSERTed for every row, without the lookup by code
UpsertSemBusca(st, codigo, descricao) ==
    [st |-> [st EXCEPT !.seq = st.seq + 1,
                !.P = st.P @@ (st.seq + 1 :> ProdutoImportado(codigo, descricao))],
     pid |-> st.seq + 1]

\* find the product by code and UPDATE its descriptive fields, or INSERT
\* it; st is the transaction's view [P, seq, M, n, ok]
UpsertPorCodigo(st, codigo, descricao) ==
    LET ids == IdsComCodigo(st.P, codigo)
    IN IF ids # {}
       THEN LET pid == CHOOSE i \in ids : TRUE
            IN [st |-> [st EXCEPT !.P = [st.P EXCEPT ![pid].descricao = descricao]],
                pid |-> pid]
       ELSE [st |-> [st EXCEPT !.seq = st.seq + 1,
                       !.P = st.P @@ (st.seq + 1 :> ProdutoImportado(codigo, descricao))],
             pid |-> st.seq + 1]

\* the movement of one row: INSERT, revalue, refresh the rate
MovimentoDaLinha(st, pid, tipo, q, v, origem, agora) ==
    LET M1 == Append(st.M, [produto_id |-> pid, tipo |-> tipo, quantidade |-> q,
                            preco_unit |-> v, origem |-> origem, data_mov |-> agora])
        P1 == AtualizarPrecoMedioEEstoque(st.P, pid, tipo, q, v)
    IN [st EXCEPT !.M = M1, !.P = CalcularConsumoMedio(P1, M1, pid, agora),
                  !.n = st.n + 1]

\* one <det> of the invoice
ItemXml(st, row, agora) ==
    IF ~row.valido THEN [st EXCEPT !.ok = FALSE]
    ELSE LET u == UpsertPorCodigo(st, row.cProd, "xml")
         IN MovimentoDaLinha(u.st, u.pid, "ENTRADA", OrNum(row.qCom, 0),
                             OrNum(row.vUnCom, 0), "XML", agora)

\* one row of the spreadsheet
LinhaExcel(st, row, agora) ==
    IF ~row.valido THEN [st EXCEPT !.ok = FALSE]
    ELSE IF Upper(row.tipo) \notin TiposValidos THEN st
    ELSE LET u == UpsertPorCodigo(st, row.codigo, "xls")
         IN MovimentoDaLinha(u.st, u.pid, Upper(row.tipo),
                             OrNum(row.quantidade, 0),
                             OrNum(row.preco_unit, 0), "EXCEL", agora)

\* the loop over the rows; an exception ends it
RECURSIVE ItensXml(_, _, _)
ItensXml(st, doc, agora) ==
    IF doc = <<>> \/ ~st.ok THEN st
    ELSE ItensXml(ItemXml(st, Head(doc), agora), Tail(doc), agora)

RECURSIVE LinhasDaPlanilha(_, _, _)
LinhasDaPlanilha(st, doc, agora) ==
    IF doc = <<>> \/ ~st.ok THEN st
    ELSE LinhasDaPlanilha(LinhaExcel(st, Head(doc), agora), Tail(doc), agora)

VisaoInicial ==
    [P |-> produtos, seq |-> prodSeq, M |-> movimentos, n |-> 0, ok |-> TRUE]

\* the end of the `with engine.begin()` block: COMMIT of everything the
\* loop wrote, or ROLLBACK of everything when a row raised
FimDaImportacao(op, st) ==
    /\ prodSeq' = st.seq
    /\ IF st.ok
       THEN /\ produtos' = st.P
            /\ movimentos' = st.M
            /\ resp' = [op |-> op, status |-> 200, itens |-> st.n]
       ELSE /\ UNCHANGED <<produtos, movimentos>>
            /\ resp' = [op |-> op, status |-> 500, itens |-> st.n]
    /\ UNCHANGED <<now, tx, base>>

\* POST /import/xml-nfe
ImportarXmlNfe(doc) ==
    FimDaImportacao("importar_xml_nfe", ItensXml(VisaoInicial, doc, now))

\* POST /import/excel
ImportarExcel(doc) ==
    FimDaImportacao("importar_excel", LinhasDaPlanilha(VisaoInicial, doc, now))

CabeImportar(doc) ==
    /\ Len(movimentos) < MaxMovs
    /\ prodSeq + Len(doc) <= MaxProdutos + MaxLinhas

NextImport ==
    \/ \E doc \in Docs(LinhasXml) : CabeImportar(doc) /\ ImportarXmlNfe(doc)
    \/ \E doc \in Docs(LinhasExcel) : CabeImportar(doc) /\ ImportarExcel(doc)

SpecImport == Init /\ [][NextImport]_vars

\* C6: each row of a bulk import is its own transaction: when row k
\* fails, the movements of rows 1..k-1 (resp.itens of them) remain in the
\* journal and row k leaves nothing.
C6_LinhasAnterioresCommitadas ==
    [][(/\ resp'.op \in {"importar_xml_nfe", "importar_excel"}
        /\ resp'.status = 500)
       => Len(movimentos') = Len(movimentos) + resp'.itens]_vars

---------------------------------------------------------------------------
(* ABC classification: curva_abc.  Percentages are exact rationals here;   *)
(* the two decimals of the output are rounded half to even.                *)

\* round(num / den * 100, 2) in hundredths of a percent (den > 0)
Cent(num, den) ==
    LET a == Abs(num) * 100
        c == (a \div den) * 100 + ArredPar((a % den) * 100, den)
    IN IF num >= 0 THEN c ELSE -c

\* COALESCE(SUM(CASE WHEN m.tipo='SAIDA' THEN m.quantidade ELSE 0 END),0)
\* over the LEFT JOIN ... ON m.produto_id=p.id AND m.data_mov>=:since
RECURSIVE QSaida(_, _, _)
QSaida(M, id, since) ==
    IF M = <<>> THEN 0
    ELSE LET h == Head(M)
         IN (IF h.produto_id = id /\ h.data_mov >= since
             THEN (IF h.tipo = "SAIDA" THEN h.quantidade ELSE 0)
             ELSE 0) + QSaida(Tail(M), id, since)

\* the rows of an INNER JOIN: products with no movement in the window are
\* missing
ItensAbcSoMovimentados(P, M, ord, since) ==
    LET com == SelectSeq(ord, LAMBDA id :
                   \E i \in 1 .. Len(M) :
                       M[i].produto_id = id /\ M[i].data_mov >= since)
    IN [i \in 1 .. Len(com) |->
           [id |-> com[i], valor |-> QSaida(M, com[i], since) * P[com[i]].preco_medio]]

\* one item per produtos row, in the order `ord` the query returns them
ItensAbc(P, M, ord, since) ==
    [i \in 1 .. Len(ord) |->
        [id |-> ord[i], valor |-> QSaida(M, ord[i], since) * P[ord[i]].preco_medio]]

RECURSIVE TotalValor(_)
TotalValor(itens) ==
    IF itens = <<>> THEN 0 ELSE Head(itens).valor + TotalValor(Tail(itens))

\* itens.sort(key=valor, reverse=True): stable
RECURSIVE InserirPorValor(_, _)
InserirPorValor(r, S) ==
    IF S = <<>> THEN <<r>>
    ELSE IF Head(S).valor >= r.valor
         THEN <<Head(S)>> \o InserirPorValor(r, Tail(S))
         ELSE <<r>> \o S

RECURSIVE OrdenarPorValor(_)
OrdenarPorValor(itens) ==
    IF itens = <<>> THEN <<>>
    ELSE InserirPorValor(itens[Len(itens)],
                         OrdenarPorValor(SubSeq(itens, 1, Len(itens) - 1)))

\* class limits taken as exclusive
ClasseEstrita(num, total) ==
    IF total <= 0 THEN "A"
    ELSE IF num * 100 < LimiteA * total THEN "A"
    ELSE IF num * 100 < LimiteB * total THEN "B"
    ELSE "C"

\* 'A' if acumulado <= 80 else ('B' if acumulado <= 95 else 'C'), with
\* acumulado = num / total * 100 (0 when total_valor is not > 0)
Classe(num, total) ==
    IF total <= 0 THEN "A"
    ELSE IF num * 100 <= LimiteA * total THEN "A"
    ELSE IF num * 100 <= LimiteB * total THEN "B"
    ELSE "C"

\* the loop that accumulates and classifies; num is the sum of the values
\* of the items before
RECURSIVE Classificar(_, _, _)
Classificar(itens, total, num) ==
    IF itens = <<>> THEN <<>>
    ELSE LET it == Head(itens)
             n1 == IF total > 0 THEN num + it.valor ELSE 0
         IN <<[id |-> it.id, valor |-> it.valor,
               perc |-> IF total > 0 THEN Cent(it.valor, total) ELSE 0,
               acumulado |-> IF total > 0 THEN Cent(n1, total) ELSE 0,
               classe |-> Classe(n1, total)]>>
            \o Classificar(Tail(itens), total, n1)

CurvaAbc(P, M, ord, agora, dias) ==
    LET itens == ItensAbc(P, M, ord, agora - dias)
    IN Classificar(OrdenarPorValor(itens), TotalValor(itens), 0)

\* the orders in which a query without ORDER BY may return the rows
Ordens(S) ==
    {f \in [1 .. Cardinality(S) -> S] :
        \A i, j \in 1 .. Cardinality(S) : f[i] = f[j] => i = j}

\* GET /abc?dias=
Abc(dias, ord) ==
    /\ resp' = [op |-> "abc", status |-> 200, dias |-> dias,
                itens |-> CurvaAbc(produtos, movimentos, ord, now, dias)]
    /\ UNCHANGED <<produtos, prodSeq, movimentos, now, tx, base>>

PrecosAbc == {10000, 20000}
DiasIn == {DiasConsumo, DiasAbc}

EntradaAbc(id, preco) ==
    [produto_id |-> id, tipo |-> "ENTRADA", quantidade |-> 40,
     preco_unit |-> {preco}, data_mov |-> {}]

SaidasAbc(agora) ==
    [produto_id : {1, 2}, tipo : {"SAIDA"}, quantidade : {1, 4, 16, 19},
     preco_unit : {{}}, data_mov : {{}} \cup {{agora - a} : a \in AtrasosIn}]

\* the store after three POST /produtos and one ENTRADA on the first two
InitAbc ==
    \E p1, p2 \in PrecosAbc :
        LET P0 == [i \in {1, 2, 3} |-> NovoProduto(ProdutoPadrao)]
            r1 == AposMovimento(P0, <<>>, EntradaAbc(1, p1), 0)
            r2 == AposMovimento(r1.P, r1.M, EntradaAbc(2, p2), 0)
        IN /\ produtos = r2.P
           /\ prodSeq = 3
           /\ movimentos = r2.M
           /\ now = 0
           /\ resp = Ok
           /\ tx = [t \in TxIds |-> TxOcioso]
           /\ base = <<>>

NextAbc ==
    \/ \E m \in SaidasAbc(now) :
          Len(movimentos) < 2 + MaxSaidasAbc /\ LancarMovimento(m)
    \/ \E dias \in DiasIn, ord \in Ordens(DOMAIN produtos) : Abc(dias, ord)

SpecAbc == InitAbc /\ [][NextAbc]_vars

---------------------------------------------------------------------------
(* Properties of the ABC output *)

\* the sum of the values of the first i items of an output
RECURSIVE ValorAte(_, _)
ValorAte(out, i) == IF i = 0 THEN 0 ELSE out[i].valor + ValorAte(out, i - 1)

RECURSIVE SomaPerc(_, _)
SomaPerc(out, i) == IF i = 0 THEN 0 ELSE out[i].perc + SomaPerc(out, i - 1)

EhAbc == resp.op = "abc" /\ resp.status = 200

\* value of product id: in-window SAIDA quantity * current avg_cost
ValorNaJanela(id, dias) ==
    SomaSaidas(movimentos, id, now - dias) * produtos[id].preco_medio

\* total value of the products S in the window
RECURSIVE TotalNaJanela(_, _)
TotalNaJanela(S, dias) ==
    IF S = {} THEN 0
    ELSE LET id == CHOOSE x \in S : TRUE
         IN ValorNaJanela(id, dias) + TotalNaJanela(S \ {id}, dias)

\* the ordering and the class rule of curva_abc on output `out`
RegraAbc(out, dias) ==
    LET n == Len(out)
        total == ValorAte(out, n)
    IN /\ \A i \in 1 .. n : out[i].valor = ValorNaJanela(out[i].id, dias)
       /\ \A i \in 1 .. n - 1 : out[i].valor >= out[i + 1].valor
       /\ \A i \in 1 .. n :
             LET cum == ValorAte(out, i)     \* cumulative % = cum/total*100
             IN IF total > 0
                THEN /\ out[i].acumulado = Cent(cum, total)
                     /\ out[i].classe = "A" <=> cum * 100 <= 80 * total
                     /\ out[i].classe = "B" <=>
                           (cum * 100 > 80 * total /\ cum * 100 <= 95 * total)
                     /\ out[i].classe = "C" <=> cum * 100 > 95 * total
                ELSE out[i].acumulado = 0 /\ out[i].classe = "A"

\* the example: the first item reaches exactly 80 % and the second 100 %
Exemplo80e20(out) ==
    /\ Len(out) >= 2
    /\ ValorAte(out, Len(out)) > 0
    /\ ValorAte(out, 1) * 100 = 80 * ValorAte(out, Len(out))
    /\ ValorAte(out, 2) = ValorAte(out, Len(out))

\* C9 as stated: the rule, and values in the ratio 800 : 200 give A at
\* cumulative 80 and B at cumulative 100.
C9_Original ==
    EhAbc =>
        /\ RegraAbc(resp.itens, resp.dias)
        /\ Exemplo80e20(resp.itens) =>
              (resp.itens[1].classe = "A" /\ resp.itens[2].classe = "B")

\* C9 amended: curva_abc orders the products by non-increasing value
\* (in-window SAIDA quantity * current avg_cost), accumulates the
\* percentages in that order, and gives A exactly when the cumulative
\* percentage is <= 80, B when it is > 80 and <= 95, C otherwise; values
\* in the ratio 800 : 200 give A at cumulative 80 and C at cumulative 100.
C9_CurvaAbc ==
    EhAbc =>
        /\ RegraAbc(resp.itens, resp.dias)
        /\ Exemplo80e20(resp.itens) =>
              (resp.itens[1].classe = "A" /\ resp.itens[2].classe = "C")

\* C9 witness: an output whose first item reaches exactly 80 % (class A)
\* and whose second item reaches 100 %.
C9_Witness ==
    /\ EhAbc
    /\ Exemplo80e20(resp.itens)
    /\ resp.itens[1].classe = "A"
    /\ resp.itens[2].acumulado = 10000

\* C10: the output holds every product exactly once, each with one class
\* in {A, B, C}; when the total value is > 0 the cumulative percentage of
\* the last item is 100.00 and the percentages sum to 100 (the values of
\* the items sum to the total value of the ledger in the window; the
\* two-decimal perc fields sum to 100 within half a hundredth per item).
C10_AbcCompleto ==
    EhAbc =>
        LET out == resp.itens
            n == Len(out)
            ids == DOMAIN produtos
            total == TotalNaJanela(ids, resp.dias)
        IN /\ n = Cardinality(ids)
           /\ {out[i].id : i \in 1 .. n} = ids
           /\ \A i \in 1 .. n : out[i].classe \in {"A", "B", "C"}
           /\ total > 0 =>
                 /\ ValorAte(out, n) = total
                 /\ out[n].acumulado = 10000
                 /\ 2 * Abs(SomaPerc(out, n) - 10000) <= n

\* C10 witness: an output with a product that has no movement in the
\* window, a positive total and three items.
C10_Witness ==
    /\ EhAbc
    /\ Len(resp.itens) = 3
    /\ ValorAte(resp.itens, 3) > 0
    /\ \E id \in DOMAIN produtos :
          \A i \in 1 .. Len(movimentos) : movimentos[i].produto_id # id

---------------------------------------------------------------------------
(* The whole API under sequential requests: registrations with and without *)
(* an external code, manual movements, both imports and the read queries.  *)

\* ProdutoIn bodies with an external code
ProdutosComCodigo ==
    {[codigo |-> c, descricao |-> "d", lead_time_dias |-> LeadPadrao,
      fator_seguranca |-> FsPadrao] : c \in {{}, {"A"}}}

MovimentosLote(ids) ==
    [produto_id : ids, tipo : {"ENTRADA", "Saida", "DEVOLUCAO"},
     quantidade : {5}, preco_unit : {{20000}}, data_mov : {{}}]

\* the rows of produtos by ascending and by descending id
RECURSIVE OrdemCrescente(_)
OrdemCrescente(S) ==
    IF S = {} THEN <<>>
    ELSE LET m == CHOOSE x \in S : \A y \in S : x <= y
         IN <<m>> \o OrdemCrescente(S \ {m})

RECURSIVE OrdemDecrescente(_)
OrdemDecrescente(S) ==
    IF S = {} THEN <<>>
    ELSE LET m == CHOOSE x \in S : \A y \in S : x >= y
         IN <<m>> \o OrdemDecrescente(S \ {m})

CabeProduto == prodSeq <= MaxProdutos

\* the rows of the documents sent here
LinhasXmlLote ==
    {r \in LinhasXml : r.valido => (r.cProd # {} /\ r.qCom # {})}

LinhasExcelLote ==
    {r \in LinhasExcel : r.codigo # {} /\ (r.valido \/ r.tipo = "DEVOLUCAO")}

\* the import fits the model: st is the view at the end of the loop
CabeLote(st) == st.seq <= MaxProdutos + 1 /\ Len(st.M) <= MaxMovs

NextLote ==
    \/ \E p \in ProdutosComCodigo : CabeProduto /\ InserirProduto(p)
    \/ \E m \in MovimentosLote(1 .. 2) :
          Len(movimentos) < MaxMovs /\ LancarMovimento(m)
    \/ \E doc \in Docs(LinhasXmlLote) :
          CabeLote(ItensXml(VisaoInicial, doc, now)) /\ ImportarXmlNfe(doc)
    \/ \E doc \in Docs(LinhasExcelLote) :
          CabeLote(LinhasDaPlanilha(VisaoInicial, doc, now)) /\ ImportarExcel(doc)
    \/ \E id \in 1 .. 2 : Sugestao(id)
    \/ \E ord \in {OrdemCrescente(DOMAIN produtos),
                   OrdemDecrescente(DOMAIN produtos)} : Abc(DiasAbc, ord)

SpecLote == Init /\ [][NextLote]_vars

---------------------------------------------------------------------------
(* Properties of the whole API *)

\* the rows of a spreadsheet whose kind is one of the three
SemTipoInvalido(doc) ==
    SelectSeq(doc, LAMBDA r : Upper(r.tipo) \in TiposValidos)

\* C11: a movement whose kind is not ENTRADA, SAIDA or AJUSTE (compared
\* case-insensitively) is never recorded and changes nothing: a rejected
\* POST /movimentos leaves journal and products as they were; a step that
\* imports a spreadsheet is the step that imports the same spreadsheet
\* without its rows of unknown kind (they create or update no product,
\* append no movement and do not fail the batch, and the other rows are
\* processed); every journal row has a kind in {ENTRADA, SAIDA, AJUSTE}.
C11_TipoInvalidoIgnorado ==
    [][/\ (resp'.op = "lancar_movimento" /\ resp'.status = 400)
          => (movimentos' = movimentos /\ produtos' = produtos)
       /\ \A i \in 1 .. Len(movimentos') : movimentos'[i].tipo \in TiposValidos
       /\ \A doc \in Docs(LinhasExcelLote) :
             ImportarExcel(doc) => ImportarExcel(SemTipoInvalido(doc))]_vars

\* the journal rows that a step appends
Novos == SubSeq(movimentos', Len(movimentos) + 1, Len(movimentos'))

\* C12: the journal is append-only.  In every step of any operation the
\* old journal is a prefix of the new one; a successful POST /movimentos
\* appends exactly one row and a successful import one row per processed
\* row; and every product's (stock, avg_cost) after the step is the
\* valuation of the appended rows of that product, each applied once, to
\* its (stock, avg_cost) before the step ((0, 0) for a product the step
\* creates).
C12_JournalSoCresce ==
    [][/\ Len(movimentos') >= Len(movimentos)
       /\ SubSeq(movimentos', 1, Len(movimentos)) = movimentos
       /\ (resp' = Ok /\ prodSeq' = prodSeq) =>
             Len(movimentos') = Len(movimentos) + 1
       /\ (resp'.op \in {"importar_xml_nfe", "importar_excel"}
           /\ resp'.status = 200) =>
             Len(movimentos') = Len(movimentos) + resp'.itens
       /\ \A id \in DOMAIN produtos' :
             LET r == IF id \in DOMAIN produtos
                      THEN Replay(MovimentosDe(Novos, id),
                                  produtos[id].estoque_atual,
                                  produtos[id].preco_medio)
                      ELSE Replay(MovimentosDe(Novos, id), 0, 0)
             IN /\ produtos'[id].estoque_atual = r.estoque
                /\ produtos'[id].preco_medio = r.preco]_vars

\* C12 witness: an import of two rows for one product has succeeded, the
\* journal holds both rows and the product's stock counts each once.
C12_Witness ==
    /\ resp.op \in {"importar_xml_nfe", "importar_excel"}
    /\ resp.status = 200
    /\ resp.itens = 2
    /\ Len(movimentos) = 2
    /\ movimentos[1].produto_id = movimentos[2].produto_id
    /\ movimentos[1].tipo = "ENTRADA" /\ movimentos[2].tipo = "ENTRADA"
    /\ produtos[movimentos[2].produto_id].estoque_atual = 10

\* C13: no two products share an external code that is present.  In
\* every step (a registration or an import) a product that existed keeps
\* its id and its code, and its (stock, avg_cost) changes only by the
\* movements the step appends for it; a product the step creates with a
\* code gets a code that no product had before the step.
C13_CodigoUnico ==
    [][/\ \A i, j \in DOMAIN produtos' :
             (i # j /\ produtos'[i].codigo # {}) =>
                 produtos'[i].codigo # produtos'[j].codigo
       /\ \A i \in DOMAIN produtos :
             /\ i \in DOMAIN produtos'
             /\ produtos'[i].codigo = produtos[i].codigo
             /\ LET r == Replay(MovimentosDe(Novos, i),
                                produtos[i].estoque_atual, produtos[i].preco_medio)
                IN /\ produtos'[i].estoque_atual = r.estoque
                   /\ produtos'[i].preco_medio = r.preco
       /\ \A i \in DOMAIN produtos' \ DOMAIN produtos :
             IdsComCodigo(produtos, produtos'[i].codigo) = {}]_vars

\* C13 witness: a product registered with code "A" has received one row
\* of an invoice and one row of a spreadsheet, beside a product without a
\* code, and there are still two products.
C13_Witness ==
    /\ Cardinality(DOMAIN produtos) = 2
    /\ \E i, j \in DOMAIN produtos :
          /\ produtos[i].codigo = {"A"}
          /\ produtos[j].codigo = {}
          /\ produtos[i].estoque_atual = 10
          /\ Len(movimentos) = 2
          /\ {movimentos[1].origem, movimentos[2].origem} = {"XML", "EXCEL"}
          /\ movimentos[1].produto_id = i /\ movimentos[2].produto_id = i

---------------------------------------------------------------------------
(* The cost of one registered product under any MovimentoIn the handler   *)
(* accepts: quantidade and preco_unit are floats with no validation.       *)

MovimentosCusto ==
    [produto_id : {1}, tipo : {"ENTRADA", "SAIDA"},
     quantidade : {-5, 0, 5, 10},
     preco_unit : {{}, {20000}, {40000}, {-20000}}, data_mov : {{}}]

NextCusto ==
    \E m \in MovimentosCusto : Len(movimentos) <= MaxMovs /\ LancarMovimento(m)

SpecCusto == InitValor /\ [][NextCusto]_vars

Min(a, b) == IF a <= b THEN a ELSE b

\* C14: in every reachable state every product's weighted-average unit
\* cost is >= 0, for any sequence of movements the operations accept.
C14_PrecoMedioNaoNegativo ==
    \A id \in DOMAIN produtos : produtos[id].preco_medio >= 0

\* C19: an ENTRADA with quantity >= 0 and unit price >= 0 on a product
\* with stock >= 0 gives an avg_cost between the old avg_cost and the unit
\* price; with stock 0 before and quantity > 0 the new avg_cost is the unit
\* price; when the resulting stock is 0 the avg_cost is unchanged.
C19_EntradaEntreCustoEPreco ==
    [][\A id \in DOMAIN produtos :
          (/\ Len(Novos) = 1
           /\ Novos[1].produto_id = id
           /\ Novos[1].tipo = "ENTRADA"
           /\ Novos[1].quantidade >= 0
           /\ Novos[1].preco_unit >= 0
           /\ produtos[id].estoque_atual >= 0)
          => LET velho == produtos[id].preco_medio
                 novo == produtos'[id].preco_medio
                 pu == Novos[1].preco_unit
             IN /\ Min(velho, pu) <= novo /\ novo <= Max(velho, pu)
                /\ (produtos[id].estoque_atual = 0 /\ Novos[1].quantidade > 0)
                      => novo = pu
                /\ produtos'[id].estoque_atual = 0 => novo = velho]_vars

\* C19 witness: a second ENTRADA at another price has moved the avg_cost
\* of a stocked product strictly between the old cost and the unit price.
C19_Witness ==
    /\ Len(movimentos) = 2
    /\ movimentos[1].tipo = "ENTRADA" /\ movimentos[2].tipo = "ENTRADA"
    /\ movimentos[1].quantidade > 0 /\ movimentos[2].quantidade > 0
    /\ movimentos[1].preco_unit = 20000 /\ movimentos[2].preco_unit = 40000
    /\ produtos[1].estoque_atual =
          movimentos[1].quantidade + movimentos[2].quantidade
    /\ produtos[1].preco_medio > 20000
    /\ produtos[1].preco_medio < 40000

---------------------------------------------------------------------------
(* The ledger of a registered product as the days pass: movements dated   *)
(* now or in the past, imports, suggestions.                               *)

MaxPassos == 2

\* the clock: datetime.now() and NOW() advance between requests
Passar(d) ==
    /\ now < MaxPassos * 20
    /\ now' = now + d
    /\ UNCHANGED <<produtos, prodSeq, movimentos, resp, tx, base>>

MovimentosTempo(agora) ==
    [produto_id : {1}, tipo : {"SAIDA"}, quantidade : {5, 10},
     preco_unit : {{20000}},
     data_mov : {{}} \cup {{agora - a} : a \in AtrasosIn}]
    \cup [produto_id : {1}, tipo : {"ENTRADA", "AJUSTE"}, quantidade : {5},
          preco_unit : {{20000}}, data_mov : {{}}]

LinhasXmlTempo ==
    {r \in LinhasXml : r.valido /\ r.cProd # {} /\ r.qCom # {}}

LinhasExcelTempo ==
    {r \in LinhasExcel : r.valido /\ r.codigo # {} /\ r.tipo = "Saida"}

NextTempo ==
    \/ \E d \in {20} : Passar(d)
    \/ \E m \in MovimentosTempo(now) :
          Len(movimentos) < MaxMovs /\ LancarMovimento(m)
    \/ \E doc \in Docs(LinhasXmlTempo) :
          CabeLote(ItensXml(VisaoInicial, doc, now)) /\ ImportarXmlNfe(doc)
    \/ \E doc \in Docs(LinhasExcelTempo) :
          CabeLote(LinhasDaPlanilha(VisaoInicial, doc, now)) /\ ImportarExcel(doc)
    \/ \E id \in 1 .. 2 : Sugestao(id)

SpecTempo == InitValor /\ [][NextTempo]_vars

---------------------------------------------------------------------------
(* Properties of the suggestion and of the consumption rate over time *)

EhSugestao(r) == r.op = "sugestao"

\* C15: the suggestion is a pure read.  A step that answers a suggestion
\* (found or NotFound) changes no product and no movement; an answer is
\* for a product that exists; and the answer that follows another answer
\* for the same product, with no other request in between, is identical.
C15_SugestaoLeituraPura ==
    [][/\ (resp' # resp /\ EhSugestao(resp')) =>
             /\ produtos' = produtos
             /\ movimentos' = movimentos
             /\ prodSeq' = prodSeq
             /\ resp'.status \in {200, 404}
             /\ resp'.status = 200 => resp'.produto_id \in DOMAIN produtos
       /\ (/\ EhSugestao(resp) /\ EhSugestao(resp')
           /\ resp.status = 200 /\ resp'.status = 200
           /\ resp.produto_id = resp'.produto_id
           /\ movimentos' = movimentos)
          => (resp' = resp /\ produtos' = produtos)]_vars

\* C15 witness: a suggestion has been answered for a product whose stored
\* rate is positive while its SAIDA movements have left the window.
C15_Witness ==
    /\ EhSugestao(resp)
    /\ resp.status = 200
    /\ resp.estoque_min > 0
    /\ produtos[resp.produto_id].consumo_medio_dia > 0
    /\ ConsumoMedio(movimentos, resp.produto_id, now, DiasConsumo) = 0

\* the SAIDA rows of product id dated at or after `since`
SaidasNaJanela(M, id, since) ==
    SelectSeq(M, LAMBDA r :
        r.produto_id = id /\ r.tipo = "SAIDA" /\ r.data_mov >= since)

\* rate (in 1/Escala) is q / DiasConsumo at the scale of the column
TaxaDe(rate, q) ==
    2 * Abs(rate * DiasConsumo - q * Escala) <= DiasConsumo

\* C16: right after a step that commits movements of product p (a manual
\* movement or import rows, of any kind), p's stored rate is the sum of the
\* quantities of p's SAIDA rows dated at or after the commit time minus 30
\* days, divided by 30 (to the fourth decimal of the column): older rows do
\* not count, the appended rows do, with their full quantity.
C16_TaxaAposMovimento ==
    [][\A id \in DOMAIN produtos' :
          MovimentosDe(Novos, id) # <<>> =>
             TaxaDe(produtos'[id].consumo_medio_dia,
                    SomaQuantidade(SaidasNaJanela(movimentos', id,
                                                  now - DiasConsumo)))]_vars

\* C16 witness: a SAIDA dated before the window and a SAIDA larger than
\* the stock have been recorded; the rate is the second one's full
\* quantity over 30.
C16_Witness ==
    /\ Len(movimentos) = 2
    /\ movimentos[1].tipo = "SAIDA" /\ movimentos[1].data_mov < now - DiasConsumo
    /\ movimentos[2].tipo = "SAIDA" /\ movimentos[2].data_mov = now
    /\ movimentos[1].produto_id = 1 /\ movimentos[2].produto_id = 1
    /\ movimentos[2].quantidade = 10
    /\ produtos[1].estoque_atual = 0
    /\ produtos[1].consumo_medio_dia = 3333

\* the step appends rows for product id, none of them a SAIDA
SoNaoSaida(id) ==
    /\ MovimentosDe(Novos, id) # <<>>
    /\ \A i \in 1 .. Len(Novos) :
          Novos[i].produto_id = id => Novos[i].tipo \in {"ENTRADA", "AJUSTE"}

\* C17 as stated: the rate after an ENTRADA or AJUSTE movement equals the
\* rate stored before it, whatever time has passed.
C17_Original ==
    [][\A id \in DOMAIN produtos :
          SoNaoSaida(id) =>
             produtos'[id].consumo_medio_dia = produtos[id].consumo_medio_dia]_vars

\* C17 amended: the refresh triggered by an ENTRADA or AJUSTE movement
\* stores the rate that the product's SAIDA movements of the trailing 30
\* days give at that moment; the movement itself adds nothing to it, and
\* the stored rate changes only when a SAIDA of the product is dated
\* before the window.
C17_RefreshSemSaida ==
    [][\A id \in DOMAIN produtos :
          SoNaoSaida(id) =>
             /\ TaxaDe(produtos'[id].consumo_medio_dia,
                       SomaQuantidade(SaidasNaJanela(movimentos, id,
                                                     now - DiasConsumo)))
             /\ produtos'[id].consumo_medio_dia # produtos[id].consumo_medio_dia
                   => \E i \in 1 .. Len(movimentos) :
                         /\ movimentos[i].produto_id = id
                         /\ movimentos[i].tipo = "SAIDA"
                         /\ movimentos[i].data_mov < now - DiasConsumo]_vars

\* C17 witness: an ENTRADA recorded 40 days after a SAIDA has reset the
\* stored rate of the product to 0.
C17_Witness ==
    /\ Len(movimentos) = 2
    /\ movimentos[1].tipo = "SAIDA" /\ movimentos[1].produto_id = 1
    /\ movimentos[1].data_mov = 0
    /\ movimentos[2].tipo = "ENTRADA" /\ movimentos[2].produto_id = 1
    /\ movimentos[2].data_mov = 40
    /\ produtos[1].consumo_medio_dia = 0

---------------------------------------------------------------------------
(* Independence of the products under concurrent POST /movimentos *)

\* request t commits its movement in this step
Commita(t) == tx[t].pc = "commit" /\ tx'[t].pc = "done"

\* C18: a movement on product p changes only p.  In every step of the
\* interleaved requests, a product row or the journal rows of a product
\* change only when a request on that very product commits; and once a
\* request has committed while the other request (if any) is on another
\* product, its product is exactly what its movement alone makes of it.
C18_SoOProduto ==
    [][/\ \A j \in DOMAIN produtos :
             (\/ produtos'[j] # produtos[j]
              \/ MovimentosDe(movimentos', j) # MovimentosDe(movimentos, j))
             => \E t \in TxIds : Commita(t) /\ MovDe(t).produto_id = j
       /\ DOMAIN produtos' = DOMAIN produtos
       /\ \A t, u \in TxIds :
             (/\ t # u
              /\ tx'[t].pc = "done"
              /\ \A x \in tx'[u].m : x.produto_id # MovDe(t).produto_id)
             => LET id == MovDe(t).produto_id
                IN produtos'[id] = AposMovimento(base, <<>>, MovDe(t), now).P[id]]_vars

\* C18 witness: two requests on different products have both committed,
\* one of them a SAIDA, and both products have changed.
C18_Witness ==
    /\ tx["t1"].pc = "done" /\ tx["t2"].pc = "done"
    /\ MovDe("t1").produto_id # MovDe("t2").produto_id
    /\ MovDe("t1").tipo = "SAIDA" /\ MovDe("t2").tipo = "ENTRADA"
    /\ \A j \in DOMAIN produtos : produtos[j] # base[j]
    /\ Len(movimentos) = 2

====
